---------------------------- MODULE Spec2Model ----------------------------
(***************************************************************************)
(* Model of the patch applicator apply-ai-change.py: the anchor resolver   *)
(* fuzzy_find_anchor, the per-instruction handler apply_patch with its     *)
(* backup and history bookkeeping, and the loop of main.                   *)
(*                                                                         *)
(* Text is a sequence of one-character strings.  Offsets are 0-based as    *)
(* in the Python source; Slice(s, lo, hi) is s[lo:hi].                     *)
(***************************************************************************)
EXTENDS Integers, Sequences, FiniteSets, TLC

VARIABLES
    content,    \* resolver call: the content argument
    anchor,     \* resolver call: the anchor argument
    result,     \* resolver call: the returned offset, NoPos for None
    rpc,        \* resolver call: "call" before, "returned" after, "idle" when unused
    patches,    \* main: the instruction list loaded from the patch file
    pc,         \* main: 1-based index of the next instruction of the loop
    status,     \* main: "idle", "running", "done" or "aborted" (unhandled exception)
    files,      \* file system: path -> content of every existing target file
    writes,     \* file system: path -> number of times the file was opened for writing
    backups,    \* .ai_backups: backup name <<basename, id>> -> content of the copy
    history,    \* .ai_history/changes.json: the JSON array, a sequence of entries
    historyExists,  \* whether changes.json exists on disk
    uuids,      \* number of uuid4() draws so far
    clock,      \* last value the wall clock was read at
    out         \* standard output and error: the sequence of printed messages

vars == <<content, anchor, result, rpc, patches, pc, status, files, writes,
          backups, history, historyExists, uuids, clock, out>>

resolverVars == <<content, anchor, result, rpc>>
runVars == <<patches, pc, status, files, writes, backups, history,
             historyExists, uuids, clock, out>>

-----------------------------------------------------------------------------
(* Bounds of the model.                                                    *)

MaxContent == 6     \* longest content handed to the resolver
MaxAnchor == 4      \* longest anchor handed to the resolver
MaxPatches == 2     \* longest instruction list

-----------------------------------------------------------------------------
(* Text.                                                                   *)

\* Python's None for an optional text field (entry.get("anchor")).
None == <<"None">>

\* Python's None for an action name (entry.get("action")).
NoAction == "None"

\* Python's None for an offset (fuzzy_find_anchor's failure result).
NoPos == -1

\* The characters str.strip() removes, among those the model uses.
Whitespace == {" ", "\n"}

\* The alphabet of the resolver's inputs: a letter and a whitespace character.
Chars == {"a", " "}

RECURSIVE StringsOver(_, _)
StringsOver(alphabet, n) ==
    IF n = 0 THEN {<<>>}
    ELSE LET shorter == StringsOver(alphabet, n - 1)
         IN  shorter \cup {Append(s, c) : s \in {t \in shorter : Len(t) = n - 1},
                                          c \in alphabet}

\* s[lo:hi] for 0 <= lo <= hi <= len(s).
Slice(s, lo, hi) == SubSeq(s, lo + 1, hi)

\* not s.strip()
IsBlank(s) == \A k \in 1..Len(s) : s[k] \in Whitespace

\* content.find(anchor) scanning from offset i: lowest offset of an
\* occurrence at or after i, -1 when there is none.
RECURSIVE FindFrom(_, _, _)
FindFrom(s, sub, i) ==
    IF i + Len(sub) > Len(s) THEN -1
    ELSE IF Slice(s, i, i + Len(sub)) = sub THEN i
    ELSE FindFrom(s, sub, i + 1)

\* Variant of Find: content.rfind(anchor), the highest offset of an occurrence.
FindLast(s, sub) ==
    LET hits == {i \in 0..(Len(s) - Len(sub)) : Slice(s, i, i + Len(sub)) = sub}
    IN  IF hits = {} THEN -1 ELSE CHOOSE i \in hits : \A j \in hits : j <= i

Find(s, sub) == FindFrom(s, sub, 0)

-----------------------------------------------------------------------------
(* difflib.SequenceMatcher(None, a, b).ratio(), as called at line 28.      *)
(* No element is junk (isjunk is None, and the autojunk heuristic only     *)
(* applies to a second sequence of 200 or more elements).                  *)

\* find_longest_match(alo, ahi, blo, bhi): the longest block
\* a[i:i+k] = b[j:j+k] inside the two ranges; among the longest, the one
\* starting earliest in a, and among those, earliest in b; <<alo, blo, 0>>
\* when the ranges share no element.
FindLongestMatch(a, b, alo, ahi, blo, bhi) ==
    LET blocks == {m \in (alo..(ahi - 1)) \X (blo..(bhi - 1)) \X (1..(ahi - alo)) :
                      /\ m[1] + m[3] <= ahi
                      /\ m[2] + m[3] <= bhi
                      /\ Slice(a, m[1], m[1] + m[3]) = Slice(b, m[2], m[2] + m[3])}
        Better(m, n) == \/ m[3] > n[3]
                        \/ m[3] = n[3] /\ m[1] < n[1]
                        \/ m[3] = n[3] /\ m[1] = n[1] /\ m[2] < n[2]
    IN  IF blocks = {} THEN <<alo, blo, 0>>
        ELSE CHOOSE m \in blocks : \A n \in blocks \ {m} : Better(m, n)

\* Sum of the sizes of get_matching_blocks(): the longest match, then
\* recursively the matches to its left and to its right.
RECURSIVE MatchSize(_, _, _, _, _, _)
MatchSize(a, b, alo, ahi, blo, bhi) ==
    LET m == FindLongestMatch(a, b, alo, ahi, blo, bhi)
        i == m[1]
        j == m[2]
        k == m[3]
    IN  IF k = 0 THEN 0
        ELSE k
             + (IF alo < i /\ blo < j THEN MatchSize(a, b, alo, i, blo, j) ELSE 0)
             + (IF i + k < ahi /\ j + k < bhi
                THEN MatchSize(a, b, i + k, ahi, j + k, bhi) ELSE 0)

\* ratio() = 2.0 * matches / (len(a) + len(b)), 1.0 for two empty
\* sequences, kept as the fraction <<numerator, denominator>>.
Ratio(a, b) ==
    IF Len(a) + Len(b) = 0 THEN <<1, 1>>
    ELSE <<2 * MatchSize(a, b, 0, Len(a), 0, Len(b)), Len(a) + Len(b)>>

\* The default of fuzzy_find_anchor's threshold parameter, 0.5, as a fraction.
ThresholdNum == 1
ThresholdDen == 2

\* ratio >= threshold
RatioAtLeastThreshold(r) == r[1] * ThresholdDen >= ThresholdNum * r[2]

\* r > q for two ratios
RatioGreater(r, q) == r[1] * q[2] > q[1] * r[2]

-----------------------------------------------------------------------------
(* fuzzy_find_anchor                                                       *)

\* Variant of WindowScan: the end offset of the best window at or after i
\* among those reaching the threshold (the earliest of the best).
WindowScanBest(c, a, i) ==
    LET R(j) == Ratio(a, Slice(c, j, j + Len(a)))
        good == {j \in i..(Len(c) - Len(a) - 1) : RatioAtLeastThreshold(R(j))}
    IN  IF good = {} THEN NoPos
        ELSE Len(a) + CHOOSE j \in good :
                 \A k \in good : /\ ~RatioGreater(R(k), R(j))
                                 /\ k < j => RatioGreater(R(j), R(k))

\* The sliding-window loop of lines 25-33 from start offset i: the end
\* offset of the first window whose ratio reaches the threshold.
RECURSIVE WindowScan(_, _, _)
WindowScan(c, a, i) ==
    LET window_size == Len(a)
    IN  IF i >= Len(c) - window_size THEN NoPos
        ELSE IF RatioAtLeastThreshold(Ratio(a, Slice(c, i, i + window_size)))
             THEN i + window_size
        ELSE WindowScan(c, a, i + 1)

fuzzy_find_anchor(c, a) ==
    IF IsBlank(a) THEN NoPos
    ELSE LET idx == Find(c, a)
         IN  IF idx # -1 THEN idx + Len(a)
             ELSE WindowScan(c, a, 0)


-----------------------------------------------------------------------------
(* The resolver on its own: every content and anchor within the bounds.    *)

ResolverIdle ==
    /\ content = <<>>
    /\ anchor = <<>>
    /\ result = NoPos
    /\ rpc = "idle"

RunIdle ==
    /\ patches = <<>>
    /\ pc = 1
    /\ status = "idle"
    /\ files = <<>>
    /\ writes = <<>>
    /\ backups = <<>>
    /\ history = <<>>
    /\ historyExists = FALSE
    /\ uuids = 0
    /\ clock = 0
    /\ out = <<>>

InitResolver ==
    /\ content \in StringsOver(Chars, MaxContent)
    /\ anchor \in StringsOver(Chars, MaxAnchor)
    /\ result = NoPos
    /\ rpc = "call"
    /\ RunIdle

\* pos = fuzzy_find_anchor(original, anchor)
Resolve ==
    /\ rpc = "call"
    /\ result' = fuzzy_find_anchor(content, anchor)
    /\ rpc' = "returned"
    /\ UNCHANGED <<content, anchor>>
    /\ UNCHANGED runVars

NextResolver == Resolve

SpecResolver == InitResolver /\ [][NextResolver]_vars

-----------------------------------------------------------------------------
(* Files, instructions and the regular expressions of replace.             *)

\* The paths instructions name: f and h exist, g does not.
ExistingPaths == {"f", "h"}
Paths == ExistingPaths \cup {"g"}

\* os.path.basename: the model's paths have no directory part.
Basename(path) == path

\* The anchors of the model's instructions: missing, empty, whitespace
\* only, a letter, two letters, and an unbalanced parenthesis.
Anchors == {None, <<>>, <<" ">>, <<"a">>, <<"b", "b">>, <<"(">>}

\* The instructions main may load.  A missing key is None (NoAction).
Entries ==
    {[file |-> "g", action |-> "append", anchor |-> None, content |-> <<"b">>],
     [file |-> "h", action |-> NoAction, anchor |-> None, content |-> None]}
    \cup {[file |-> "f", action |-> a, anchor |-> an, content |-> <<"b">>] :
             a \in {"replace", "insert_after", "insert_before"}, an \in Anchors}
    \cup {[file |-> "f", action |-> a, anchor |-> None, content |-> <<"b">>] :
             a \in {"append", "prepend", "delete"}}

RECURSIVE ListsOf(_, _)
ListsOf(S, n) ==
    IF n = 0 THEN {<<>>}
    ELSE LET shorter == ListsOf(S, n - 1)
         IN  shorter \cup {Append(l, e) : l \in {t \in shorter : Len(t) = n - 1},
                                          e \in S}

\* entry.get("content", default) and entry.get("action", default)
Get(value, default) == IF value = None THEN default ELSE value
GetAction(value, default) == IF value = NoAction THEN default ELSE value

\* re.compile(anchor, re.MULTILINE) succeeds.  None is no pattern
\* (TypeError); of the model's characters only "(" is not literal, and an
\* unbalanced "(" is a re.error.
CompileOk(pattern) ==
    /\ pattern # None
    /\ \A k \in 1..Len(pattern) : pattern[k] # "("

\* pattern.sub(repl, s) from offset i for a literal pattern and a literal
\* replacement: leftmost non-overlapping matches; the empty pattern
\* matches once at every offset, the end of the text included.
RECURSIVE ReSubFrom(_, _, _, _)
ReSubFrom(pattern, repl, s, i) ==
    IF pattern = <<>>
    THEN IF i >= Len(s) THEN repl
         ELSE repl \o <<s[i + 1]>> \o ReSubFrom(pattern, repl, s, i + 1)
    ELSE IF i + Len(pattern) > Len(s) THEN Slice(s, i, Len(s))
    ELSE IF Slice(s, i, i + Len(pattern)) = pattern
         THEN repl \o ReSubFrom(pattern, repl, s, i + Len(pattern))
    ELSE <<s[i + 1]>> \o ReSubFrom(pattern, repl, s, i + 1)

ReSub(pattern, repl, s) == ReSubFrom(pattern, repl, s, 0)

\* The truth value of entry.get("anchor"): None and "" are falsy.
Truthy(a) == a # None /\ a # <<>>

-----------------------------------------------------------------------------
(* backup_file and log_change                                              *)

\* uuid.uuid4().hex[:8]: the id of the next draw.  Draws are taken to be
\* pairwise distinct, so the n-th draw is named n.
Uuid4 == uuids + 1

\* timestamp(): the wall clock, read in whole seconds.  The clock does not
\* run backwards, and at most one second passes between two readings.
Timestamps == {clock, clock + 1}

\* dest = os.path.join(BACKUP_DIR, f"{bname}.{bid}.bak")
BackupDest(path) == <<Basename(path), Uuid4>>

\* Variant of backup_file: the backup is created but nothing is copied into it.
backup_file_empty(path) ==
    [d \in DOMAIN backups \cup {BackupDest(path)} |->
        IF d = BackupDest(path) THEN <<>> ELSE backups[d]]

\* shutil.copy2(path, dest): the backup directory afterwards.
backup_file(path) ==
    [d \in DOMAIN backups \cup {BackupDest(path)} |->
        IF d = BackupDest(path) THEN files[path] ELSE backups[d]]

\* entry.get("content", "")[:80].replace("\n", " ") + "..."
SummaryLen == 80
Summary(text) ==
    LET head == Slice(text, 0, IF Len(text) < SummaryLen THEN Len(text) ELSE SummaryLen)
    IN  [k \in 1..Len(head) |-> IF head[k] = "\n" THEN " " ELSE head[k]]
        \o <<".", ".", ".">>

\* Variant of LogEntry: the entry records the target's path, not the backup's.
LogEntryOfTarget(entry, backup_path, now) ==
    [id |-> Uuid4 + 1,
     timestamp |-> now,
     file |-> entry.file,
     action |-> entry.action,
     anchor |-> entry.anchor,
     backup |-> <<entry.file, 0>>,
     summary |-> Summary(Get(entry.content, <<>>))]

\* The log_entry of lines 51-59; id is the uuid drawn after the backup's.
LogEntry(entry, backup_path, now) ==
    [id |-> Uuid4 + 1,
     timestamp |-> now,
     file |-> entry.file,
     action |-> entry.action,
     anchor |-> entry.anchor,
     backup |-> backup_path,
     summary |-> Summary(Get(entry.content, <<>>))]

\* Variant of log_change: the existing log is not loaded before the write.
log_change_overwrite(entry, backup_path, now) ==
    <<[id |-> Uuid4 + 1,
       timestamp |-> now,
       file |-> entry.file,
       action |-> entry.action,
       anchor |-> entry.anchor,
       backup |-> backup_path,
       summary |-> Summary(Get(entry.content, <<>>))]>>

\* The array log_change writes: the one loaded from changes.json (empty
\* when the file does not exist) with the new entry appended.
log_change(entry, backup_path, now) ==
    Append(IF historyExists THEN history ELSE <<>>,
           LogEntry(entry, backup_path, now))

-----------------------------------------------------------------------------
(* apply_patch, lines 82-111: what the action makes of the original text.  *)
(* kind is "write" (fall through to the write and the log), "skip" (the    *)
(* early return of an unresolved anchor) or "raise" (re.compile raises).   *)

Written(text, msg) == [kind |-> "write", text |-> text, msg |-> msg]

NewContent(entry, original) ==
    LET action == GetAction(entry.action, "append")
        text == Get(entry.content, <<>>)
        a == entry.anchor
        pos == fuzzy_find_anchor(original, a)
    IN  IF action = "replace"
        THEN IF CompileOk(a)
             THEN Written(ReSub(a, text, original), <<"Replaced">>)
             ELSE [kind |-> "raise", text |-> original, msg |-> <<>>]
        ELSE IF action = "insert_after" /\ Truthy(a)
        THEN IF pos = NoPos
             THEN [kind |-> "skip", text |-> original, msg |-> <<"Anchor not found">>]
             ELSE Written(Slice(original, 0, pos) \o text
                              \o Slice(original, pos, Len(original)),
                          <<"Inserted after">>)
        ELSE IF action = "insert_before" /\ Truthy(a)
        THEN IF pos = NoPos
             THEN [kind |-> "skip", text |-> original, msg |-> <<"Anchor not found">>]
             ELSE Written(Slice(original, 0, pos - Len(a)) \o text
                              \o Slice(original, pos - Len(a), Len(original)),
                          <<"Inserted before">>)
        ELSE IF action = "append"
        THEN Written(original \o <<"\n">> \o text, <<"Appended">>)
        ELSE IF action = "prepend"
        THEN Written(text \o <<"\n">> \o original, <<"Prepended">>)
        ELSE Written(original, <<>>)

-----------------------------------------------------------------------------
(* A run of main: the loop over the instruction list.                      *)

\* Text of f before the run.
InitialContent == <<"a", "b", "a">>

\* What an earlier run left behind: one backup and one history entry.
OldBackup == <<"f", 0>>
OldEntry ==
    [id |-> 0, timestamp |-> 0, file |-> "f", action |-> "append",
     anchor |-> None, backup |-> OldBackup, summary |-> <<".", ".", ".">>]

Init ==
    /\ ResolverIdle
    /\ patches \in ListsOf(Entries, MaxPatches)
    /\ pc = 1
    /\ status = "running"
    /\ files = [p \in ExistingPaths |-> IF p = "f" THEN InitialContent ELSE <<"b">>]
    /\ writes = [p \in ExistingPaths |-> 0]
    /\ historyExists \in BOOLEAN
    /\ history = IF historyExists THEN <<OldEntry>> ELSE <<>>
    /\ backups = IF historyExists
                 THEN [d \in {OldBackup} |-> <<"a">>]
                 ELSE [d \in {} |-> <<>>]
    /\ uuids = 0
    /\ clock = 0
    /\ out = <<>>

\* for entry in patches: the loop has an instruction left.
Running == status = "running" /\ pc <= Len(patches)

\* os.path.exists(file_path)
Exists(path) == path \in DOMAIN files

\* Variant of FileNotFound: no existence check, so the copy of line 46
\* raises FileNotFoundError, which leaves apply_patch and main.
FileNotFoundRaises ==
    /\ Running
    /\ UNCHANGED resolverVars
    /\ ~Exists(patches[pc].file)
    /\ uuids' = uuids + 1
    /\ out' = Append(out, "Traceback: OSError")
    /\ status' = "aborted"
    /\ UNCHANGED <<patches, pc, files, writes, backups, history,
                   historyExists, clock>>

\* Lines 74-76: the target does not exist; warn and return.
FileNotFound ==
    /\ Running
    /\ UNCHANGED resolverVars
    /\ ~Exists(patches[pc].file)
    /\ out' = Append(out, "File not found")
    /\ pc' = pc + 1
    /\ UNCHANGED <<patches, status, files, writes, backups, history,
                   historyExists, uuids, clock>>

\* Line 78 raises (the copy fails): nothing is copied, the exception
\* leaves apply_patch and main.
BackupFailed ==
    /\ Running
    /\ UNCHANGED resolverVars
    /\ Exists(patches[pc].file)
    /\ uuids' = uuids + 1
    /\ out' = Append(out, "Traceback: OSError")
    /\ status' = "aborted"
    /\ UNCHANGED <<patches, pc, files, writes, backups, history,
                   historyExists, clock>>

\* Lines 78-85: the backup is taken, then re.compile raises (re.error, or
\* TypeError for a missing anchor); the exception leaves apply_patch and main.
PatternError ==
    /\ Running
    /\ UNCHANGED resolverVars
    /\ Exists(patches[pc].file)
    /\ NewContent(patches[pc], files[patches[pc].file]).kind = "raise"
    /\ backups' = backup_file(patches[pc].file)
    /\ uuids' = uuids + 1
    /\ out' = Append(out, IF patches[pc].anchor = None
                           THEN "Traceback: TypeError"
                           ELSE "Traceback: re.error")
    /\ status' = "aborted"
    /\ UNCHANGED <<patches, pc, files, writes, history, historyExists, clock>>

\* Variant of AnchorNotFound: the early return is missing, so the
\* unchanged text is written back and the instruction is logged.
AnchorNotFoundFallsThrough ==
    /\ Running
    /\ UNCHANGED resolverVars
    /\ Exists(patches[pc].file)
    /\ NewContent(patches[pc], files[patches[pc].file]).kind = "skip"
    /\ backups' = backup_file(patches[pc].file)
    /\ writes' = [writes EXCEPT ![patches[pc].file] = @ + 1]
    /\ out' = out \o NewContent(patches[pc], files[patches[pc].file]).msg
    /\ \E now \in Timestamps :
          /\ clock' = now
          /\ history' = log_change(patches[pc], BackupDest(patches[pc].file), now)
    /\ historyExists' = TRUE
    /\ uuids' = uuids + 2
    /\ pc' = pc + 1
    /\ UNCHANGED <<patches, status, files>>

\* Lines 78-93 and 97-101: the backup is taken, the anchor does not
\* resolve; warn and return.
AnchorNotFound ==
    /\ Running
    /\ UNCHANGED resolverVars
    /\ Exists(patches[pc].file)
    /\ NewContent(patches[pc], files[patches[pc].file]).kind = "skip"
    /\ backups' = backup_file(patches[pc].file)
    /\ uuids' = uuids + 1
    /\ out' = out \o NewContent(patches[pc], files[patches[pc].file]).msg
    /\ pc' = pc + 1
    /\ UNCHANGED <<patches, status, files, writes, history, historyExists, clock>>

\* Lines 78-116: the backup is taken, the new content is written and the
\* change is logged.
WriteAndLog ==
    /\ Running
    /\ UNCHANGED resolverVars
    /\ Exists(patches[pc].file)
    /\ NewContent(patches[pc], files[patches[pc].file]).kind = "write"
    /\ backups' = backup_file(patches[pc].file)
    /\ files' = [files EXCEPT ![patches[pc].file] =
                    NewContent(patches[pc], files[patches[pc].file]).text]
    /\ writes' = [writes EXCEPT ![patches[pc].file] = @ + 1]
    /\ out' = out \o NewContent(patches[pc], files[patches[pc].file]).msg
    /\ \E now \in Timestamps :
          /\ clock' = now
          /\ history' = log_change(patches[pc], BackupDest(patches[pc].file), now)
    /\ historyExists' = TRUE
    /\ uuids' = uuids + 2
    /\ pc' = pc + 1
    /\ UNCHANGED <<patches, status>>

\* Lines 130-131: the loop is over; print the summary.
Finish ==
    /\ status = "running"
    /\ UNCHANGED resolverVars
    /\ pc > Len(patches)
    /\ out' = Append(out, "Applied")
    /\ status' = "done"
    /\ UNCHANGED <<patches, pc, files, writes, backups, history,
                   historyExists, uuids, clock>>

Next ==
    \/ FileNotFound
    \/ BackupFailed
    \/ PatternError
    \/ AnchorNotFound
    \/ WriteAndLog
    \/ Finish

Spec == Init /\ [][Next]_vars

-----------------------------------------------------------------------------
(* Vocabulary of the properties.                                           *)

\* Backups and history entries created by this run.
NewBackups == DOMAIN backups \ {OldBackup}
NewEntries == {k \in 1..Len(history) : history[k] # OldEntry}

\* Number of times msg was printed.
Printed(msg) == Cardinality({k \in 1..Len(out) : out[k] = msg})

\* The offsets at which sub occurs verbatim in s.
Occurrences(s, sub) ==
    {i \in 0..(Len(s) - Len(sub)) : Slice(s, i, i + Len(sub)) = sub}

\* The start offsets of the windows the scan visits whose ratio reaches 0.5.
GoodWindows(c, a) ==
    {i \in 0..(Len(c) - Len(a) - 1) :
        RatioAtLeastThreshold(Ratio(a, Slice(c, i, i + Len(a))))}

\* No exact occurrence and no window reaching the threshold.
Unresolvable(c, a) ==
    /\ a # None
    /\ Occurrences(c, a) = {}
    /\ GoodWindows(c, a) = {}

IsInsert(entry) == entry.action \in {"insert_after", "insert_before"}

\* This step took a backup.
BackupTaken == DOMAIN backups' # DOMAIN backups

\* This step moved the loop on to the next instruction.
LoopContinues == status' = "running" /\ pc' = pc + 1

-----------------------------------------------------------------------------
(* Properties of a run (specification Spec).                               *)

\* C1: after a run of N instructions that all name the same existing
\* file (and in which no backup copy failed), exactly N backups were
\* created, one per instruction.
C1_OneBackupPerInstruction ==
    (/\ status \in {"done", "aborted"}
     /\ Printed("Traceback: OSError") = 0
     /\ \A k \in 1..Len(patches) : patches[k].file = "f")
    => Cardinality(NewBackups) = Len(patches)

\* C2 as stated: after a run that processed its whole list, the history
\* entries it appended and the backups it created are in one-to-one
\* correspondence.
C2_EntriesAndBackupsOneToOne ==
    status = "done" =>
        /\ \A k \in NewEntries : history[k].backup \in NewBackups
        /\ \A d \in NewBackups :
              Cardinality({k \in NewEntries : history[k].backup = d}) = 1

\* C2 as amended: after a run that processed its whole list, every
\* appended history entry references a backup created by the run, no
\* backup is referenced by two entries, and the backups referenced by no
\* entry are as many as the instructions skipped for an unresolved anchor.
C2_EntriesIntoBackups ==
    status = "done" =>
        /\ \A k \in NewEntries : history[k].backup \in NewBackups
        /\ \A d \in NewBackups :
              Cardinality({k \in NewEntries : history[k].backup = d}) <= 1
        /\ Cardinality({d \in NewBackups :
                           \A k \in NewEntries : history[k].backup # d})
              = Printed("Anchor not found")

C2_Witness ==
    /\ status = "done"
    /\ Printed("Anchor not found") = 1
    /\ Cardinality(NewEntries) = 1
    /\ Cardinality(NewBackups) = 2

\* C3: an instruction whose target file does not exist creates no backup,
\* appends no history entry, writes no file, and the loop moves on to the
\* next instruction.
C3_MissingFileSkipped ==
    [][(Running /\ ~Exists(patches[pc].file)) =>
          /\ backups' = backups
          /\ history' = history /\ historyExists' = historyExists
          /\ files' = files /\ writes' = writes
          /\ LoopContinues]_vars

C3_Witness ==
    /\ pc = 3
    /\ patches[1].file = "g"
    /\ out[1] = "File not found"
    /\ patches[2].file = "f"
    /\ writes["f"] = 1

\* C4: when the anchor of an insert_after or insert_before instruction
\* cannot be resolved (no exact occurrence, no window reaching the
\* threshold), the file is left unchanged and no history entry is appended,
\* and once the backup is taken the loop moves on to the next instruction.
C4_UnresolvedAnchorSkipped ==
    [][(/\ Running
        /\ Exists(patches[pc].file)
        /\ IsInsert(patches[pc])
        /\ Unresolvable(files[patches[pc].file], patches[pc].anchor)) =>
          /\ files' = files /\ writes' = writes
          /\ history' = history /\ historyExists' = historyExists
          /\ BackupTaken => LoopContinues]_vars

C4_Witness ==
    /\ pc = 3
    /\ IsInsert(patches[1])
    /\ patches[1].anchor = <<"(">>
    /\ out[1] = "Anchor not found"
    /\ patches[2].action = "append"
    /\ files["f"] = InitialContent \o <<"\n", "b">>
    /\ Cardinality(NewEntries) = 1

C8_PatternErrorSkipped ==
    [][(/\ Running
        /\ Exists(patches[pc].file)
        /\ patches[pc].action = "replace"
        /\ patches[pc].anchor # None
        /\ ~CompileOk(patches[pc].anchor)
        /\ BackupTaken) =>
          /\ files' = files /\ writes' = writes
          /\ history' = history
          /\ LoopContinues]_vars

\* C9: a file is written only in a step that first took a backup of it
\* holding the content the file had before the write; a step whose backup
\* fails writes no file.
C9_BackupBeforeWrite ==
    [][/\ \A p \in DOMAIN files :
            (writes'[p] # writes[p] \/ files'[p] # files[p]) =>
                \E d \in DOMAIN backups' \ DOMAIN backups :
                    /\ d[1] = Basename(p)
                    /\ backups'[d] = files[p]
       /\ (Printed("Traceback: OSError")' # Printed("Traceback: OSError")) =>
             (files' = files /\ writes' = writes)]_vars

C9_Witness ==
    /\ writes["f"] = 1
    /\ files["f"] # InitialContent
    /\ \E d \in NewBackups : d[1] = "f" /\ backups[d] = InitialContent

\* C10: an insert_after or insert_before instruction whose anchor is
\* missing, empty or whitespace-only does not write the file and appends no
\* history entry.
C10_BlankAnchorSkipped ==
    [][(/\ Running
        /\ Exists(patches[pc].file)
        /\ IsInsert(patches[pc])
        /\ (patches[pc].anchor = None \/ IsBlank(patches[pc].anchor))) =>
          /\ writes' = writes
          /\ history' = history]_vars

-----------------------------------------------------------------------------
(* Properties of the resolver (specification SpecResolver).                *)

\* C6: for a non-blank anchor that occurs verbatim in content,
\* fuzzy_find_anchor returns the offset just after its first occurrence.
C6_ExactMatchFirst ==
    (/\ rpc = "returned"
     /\ ~IsBlank(anchor)
     /\ Occurrences(content, anchor) # {})
    => /\ result - Len(anchor) \in Occurrences(content, anchor)
       /\ \A i \in Occurrences(content, anchor) : result - Len(anchor) <= i

\* An exact occurrence wins over an earlier window that reaches the threshold.
C6_Witness ==
    /\ rpc = "returned"
    /\ ~IsBlank(anchor)
    /\ Cardinality(Occurrences(content, anchor)) >= 2
    /\ \E i \in GoodWindows(content, anchor) :
          /\ i + Len(anchor) < result
          /\ i \notin Occurrences(content, anchor)

\* C7: for a non-blank anchor with no verbatim occurrence,
\* fuzzy_find_anchor returns the end offset of the lowest-index window
\* (starts 0 .. len(content)-len(anchor)-1) whose ratio is >= 0.5, and
\* None when there is no such window.
C7_FirstGoodWindow ==
    (/\ rpc = "returned"
     /\ ~IsBlank(anchor)
     /\ Occurrences(content, anchor) = {})
    => IF GoodWindows(content, anchor) = {}
       THEN result = NoPos
       ELSE /\ result - Len(anchor) \in GoodWindows(content, anchor)
            /\ \A i \in GoodWindows(content, anchor) : result - Len(anchor) <= i

\* The first good window is returned although a later one has a strictly
\* higher ratio.
C7_Witness ==
    /\ rpc = "returned"
    /\ ~IsBlank(anchor)
    /\ Occurrences(content, anchor) = {}
    /\ result # NoPos
    /\ \E j \in GoodWindows(content, anchor) :
          /\ j > result - Len(anchor)
          /\ RatioGreater(Ratio(anchor, Slice(content, j, j + Len(anchor))),
                          Ratio(anchor, Slice(content, result - Len(anchor), result)))

=============================================================================
